---- MODULE Spec2Model ----
(***************************************************************************)
(* Model of website/producer.py: the thread-safe producer registry         *)
(* (ProducerBase / SimpleQueueProducer) and the NewsProducer worker thread. *)
(*                                                                         *)
(* Threads are the worker (NewsProducer.run) and a few external client     *)
(* threads that call the public methods.  Every method that is written     *)
(* `with self.mutex:` is modelled in two steps: taking the lock, then the   *)
(* body together with the release.  A broadcast (produce / poison) holds   *)
(* the lock over one step per queue of the iteration.                      *)
(***************************************************************************)
EXTENDS Integers, Sequences, FiniteSets, TLC

\* ---------------------------------------------------------------- bounds
\* Queue handles that exist in the process and the threads that use them.
Queues == {"q1", "q2"}
Clients == {"c1", "c2"}
Worker == "worker"
Threads == Clients \cup {Worker}

\* Number of calls the client threads issue while the worker runs (Spec).
MaxCalls == 2
\* Number of calls the client threads issue after start() when subscribers
\* were registered before it (SpecRun).
MaxRunCalls == 1
\* Number of calls the client threads issue on the bare registry (SpecRegistry).
MaxOps == 4
\* maxsize of every subscriber queue (queue.Queue(maxsize)); the readers
\* drain it with Get, so any number of insertions can still succeed.
QueueCap == 1

\* -------------------------------------------------------- program constants
\* run(): `self.news_count < 10`
NewsLimit == 10

NoThread == "free"
NoQueue == "none"

VARIABLES
    mutex,          \* self.mutex: NoThread or the thread that holds it
    queues,         \* self.queues: list of queue handles
    block,          \* self.block
    timeout,        \* self.timeout: FALSE is None, TRUE is a finite timeout
    news_count,     \* self.news_count
    stop_request,   \* self.stop_request (Event)
    wpc,            \* position of the worker thread in run()
    tpc,            \* per thread: the registry method whose body it is in
    idx,            \* per thread: position of `for queue in self.queues`
    item,           \* per thread: the `item` of its produce / poison call
    arg,            \* per thread: the `queue` of its add_queue / remove_queue call
    qsize,          \* per queue: number of elements it holds now
    received,       \* per queue: every element ever inserted, in order
    err,            \* per thread: exception its last call raised
    ret,            \* per thread: value its last queue_count returned
    calls,          \* number of client calls issued so far
    hist            \* observations of the run (not program state)

vars == <<mutex, queues, block, timeout, news_count, stop_request, wpc, tpc,
          idx, item, arg, qsize, received, err, ret, calls, hist>>

\* ------------------------------------------------------------------ items
\* generate_news(news_count): the record is keyed by the count (`++x` is x
\* in Python); the date is the wall clock and is left out.
\* Variant: the record is built from a constant instead of the count.
generate_news_stale(n) ==
    [content |-> 1, headline |-> 1, icon |-> "", source |-> 1]

generate_news(n) ==
    [content |-> n, headline |-> n, icon |-> "", source |-> n]

\* get_poison: None, which is no news record; encoded as the record that no
\* generate_news(n), n >= 1, returns.
get_poison ==
    [content |-> 0, headline |-> 0, icon |-> "None", source |-> 0]

IsNews(x) == x.icon = ""
Seqno(x) == x.headline

\* ------------------------------------------------------------- list helpers
\* list.remove(x): deletes the first occurrence.
RECURSIVE IndexOf(_, _, _)
IndexOf(s, x, i) ==
    IF i > Len(s) THEN 0
    ELSE IF s[i] = x THEN i ELSE IndexOf(s, x, i + 1)

DropAt(s, i) == SubSeq(s, 1, i - 1) \o SubSeq(s, i + 1, Len(s))

\* Variant: an absent value is not an error; the last element is dropped.
list_remove_lenient(s, x) ==
    LET i == IndexOf(s, x, 1) IN
      IF i = 0 THEN [raised |-> FALSE, list |-> SubSeq(s, 1, Len(s) - 1)]
      ELSE [raised |-> FALSE, list |-> DropAt(s, i)]

\* Variant: every occurrence is deleted, not only the first.
list_remove_all(s, x) ==
    LET i == IndexOf(s, x, 1)
        keep(y) == y # x
    IN IF i = 0 THEN [raised |-> TRUE, list |-> s]
       ELSE [raised |-> FALSE, list |-> SelectSeq(s, keep)]

list_remove(s, x) ==
    LET i == IndexOf(s, x, 1) IN
      IF i = 0 THEN [raised |-> TRUE, list |-> s]
      ELSE [raised |-> FALSE, list |-> DropAt(s, i)]

Contains(s, x) == \E i \in 1..Len(s) : s[i] = x

Count(s, x) == Cardinality({i \in 1..Len(s) : s[i] = x})

\* --------------------------------------------------------------- the mutex
\* Variant: the lock is taken without waiting for it to be free.
Acquire_unguarded(t) == mutex' = t

\* Variant: leaving the `with` block keeps the lock.
Release_keeps(t) == mutex' = mutex

\* `with self.mutex:` entry and exit.
Acquire(t) == mutex = NoThread /\ mutex' = t
Release(t) == mutex' = NoThread

Idle(t) == tpc[t] = "idle"

\* What the worker does once the method it called has returned.
AfterCall(t, next) == wpc' = IF t = Worker THEN next ELSE wpc
\* An exception that leaves a method: it ends run() when the worker made the call.
AfterRaise(t) == wpc' = IF t = Worker THEN "crashed" ELSE wpc

CallerReady(t, m) ==
    /\ Idle(t)
    /\ IF t = Worker
       THEN \/ m = "queue_count" /\ wpc = "if"
            \/ m = "produce" /\ wpc = "produce"
            \/ m = "poison" /\ wpc = "poison"
       ELSE TRUE

Called(t) == calls' = IF t = Worker THEN calls ELSE calls + 1

\* ------------------------------------------------------------ observations
\* hist records what a test harness around the program would log:
\*   regs      for each entry of self.queues, as of the add_queue that appended
\*             it: news_count, the number of the worker's finished produce
\*             calls, how many elements the queue had received, and whether
\*             the entry was there in the initial state
\*   dups      the queues that have been in self.queues more than once at a time
\*   snap      self.queues when the latest broadcast took the lock
\*   attempts  the queues that broadcast has called _put on, in order
\*   delivered the queues whose _put returned, in order
\*   kind, by, open   that broadcast's method, its thread, whether it is running
\*   adds, removes    completed add_queue / successful remove_queue calls
\*   produces, produced, poisons   produce calls the worker started / finished,
\*             poison calls the worker started
\*   allpoisons       poison calls started by any thread
\*   stopped   whether stop_request was ever set, with news_count and the
\*             worker's position when it first was
HistInit ==
    [regs |-> <<>>, dups |-> {}, snap |-> <<>>, attempts |-> <<>>,
     delivered |-> <<>>, kind |-> "none",
     by |-> NoThread, open |-> FALSE, adds |-> 0, removes |-> 0,
     produces |-> 0, produced |-> 0, poisons |-> 0, allpoisons |-> 0,
     stopped |-> FALSE, stopCount |-> 0, stopPc |-> "idle"]

\* ------------------------------------------------------------------- Init
\* State after NewsProducer(block, timeout) is constructed and the queue
\* objects exist; nothing is registered, the thread is not started.  put
\* does not read timeout when block is false, so one value stands for all.
Init ==
    /\ mutex = NoThread
    /\ queues = <<>>
    /\ block \in BOOLEAN
    /\ timeout \in (IF block THEN BOOLEAN ELSE {FALSE})
    /\ news_count = 0
    /\ stop_request = FALSE
    /\ wpc = "idle"
    /\ tpc = [t \in Threads |-> "idle"]
    /\ idx = [t \in Threads |-> 0]
    /\ item = [t \in Threads |-> get_poison]
    /\ arg = [t \in Threads |-> NoQueue]
    /\ qsize = [q \in Queues |-> 0]
    /\ received = [q \in Queues |-> <<>>]
    /\ err = [t \in Threads |-> "none"]
    /\ ret = [t \in Threads |-> 0]
    /\ calls = 0
    /\ hist = HistInit

\* ------------------------------------------------- ProducerBase: registry
\* `with self.mutex:` of add_queue, remove_queue and queue_count: the caller
\* has the lock and is about to run the body.
with_mutex(t, m, q) ==
    /\ \/ m \in {"add_queue", "remove_queue"} /\ q \in Queues
       \/ m = "queue_count" /\ q = NoQueue
    /\ CallerReady(t, m)
    /\ Acquire(t)
    /\ Called(t)
    /\ tpc' = [tpc EXCEPT ![t] = m]
    /\ arg' = [arg EXCEPT ![t] = q]
    /\ err' = [err EXCEPT ![t] = "none"]
    /\ UNCHANGED <<queues, block, timeout, news_count, stop_request, wpc, idx,
                   item, qsize, received, ret, hist>>

\* add_queue: self.queues.append(queue), then the lock is released.
add_queue(t) ==
    /\ tpc[t] = "add_queue"
    /\ queues' = Append(queues, arg[t])
    /\ Release(t)
    /\ tpc' = [tpc EXCEPT ![t] = "idle"]
    /\ hist' = [hist EXCEPT
                  !.regs = Append(@, [count |-> news_count,
                                      done |-> hist.produced,
                                      base |-> Len(received[arg[t]]),
                                      initial |-> FALSE]),
                  !.dups = IF Contains(queues, arg[t])
                           THEN @ \cup {arg[t]} ELSE @,
                  !.adds = @ + 1]
    /\ arg' = [arg EXCEPT ![t] = NoQueue]
    /\ UNCHANGED <<block, timeout, news_count, stop_request, wpc, idx, item,
                   qsize, received, err, ret, calls>>

\* remove_queue: self.queues.remove(queue); list.remove raises ValueError when
\* the value is absent, and the `with` releases the lock on the way out.
remove_queue(t) ==
    /\ tpc[t] = "remove_queue"
    /\ LET r == list_remove(queues, arg[t]) IN
         /\ queues' = r.list
         /\ err' = [err EXCEPT ![t] = IF r.raised THEN "ValueError" ELSE "none"]
         /\ hist' = IF r.raised THEN hist
                    ELSE [hist EXCEPT
                            !.regs = DropAt(@, IndexOf(queues, arg[t], 1)),
                            !.removes = @ + 1]
    /\ Release(t)
    /\ tpc' = [tpc EXCEPT ![t] = "idle"]
    /\ arg' = [arg EXCEPT ![t] = NoQueue]
    /\ UNCHANGED <<block, timeout, news_count, stop_request, wpc, idx, item,
                   qsize, received, ret, calls>>

\* Variant: the `if` of run() takes the branch whatever the count is.
queue_count_always_news(t) ==
    /\ tpc[t] = "queue_count"
    /\ ret' = [ret EXCEPT ![t] = Len(queues)]
    /\ Release(t)
    /\ tpc' = [tpc EXCEPT ![t] = "idle"]
    /\ AfterCall(t, "news")
    /\ UNCHANGED <<queues, block, timeout, news_count, stop_request, idx, item,
                   arg, qsize, received, err, calls, hist>>

\* queue_count: return len(self.queues).  In run() the value decides the `if`.
queue_count(t) ==
    /\ tpc[t] = "queue_count"
    /\ ret' = [ret EXCEPT ![t] = Len(queues)]
    /\ Release(t)
    /\ tpc' = [tpc EXCEPT ![t] = "idle"]
    /\ AfterCall(t, IF Len(queues) > 0 THEN "news" ELSE "sleep")
    /\ UNCHANGED <<queues, block, timeout, news_count, stop_request, idx, item,
                   arg, qsize, received, err, calls, hist>>

\* Variant: the iteration starts at the second entry of the list.
Broadcast_skip_first(t, m, it) ==
    /\ CallerReady(t, m)
    /\ Acquire(t)
    /\ Called(t)
    /\ tpc' = [tpc EXCEPT ![t] = m]
    /\ idx' = [idx EXCEPT ![t] = 2]
    /\ item' = [item EXCEPT ![t] = it]
    /\ err' = [err EXCEPT ![t] = "none"]
    /\ hist' = [hist EXCEPT
                  !.snap = queues, !.attempts = <<>>, !.delivered = <<>>,
                  !.kind = m, !.by = t,
                  !.open = TRUE,
                  !.produces = IF t = Worker /\ m = "produce" THEN @ + 1 ELSE @,
                  !.poisons = IF t = Worker /\ m = "poison" THEN @ + 1 ELSE @,
                  !.allpoisons = IF m = "poison" THEN @ + 1 ELSE @]
    /\ UNCHANGED <<queues, block, timeout, news_count, stop_request, wpc, arg,
                   qsize, received, ret>>

\* Taking the lock for a broadcast and starting `for queue in self.queues`.
Broadcast(t, m, it) ==
    /\ CallerReady(t, m)
    /\ Acquire(t)
    /\ Called(t)
    /\ tpc' = [tpc EXCEPT ![t] = m]
    /\ idx' = [idx EXCEPT ![t] = 1]
    /\ item' = [item EXCEPT ![t] = it]
    /\ err' = [err EXCEPT ![t] = "none"]
    /\ hist' = [hist EXCEPT
                  !.snap = queues, !.attempts = <<>>, !.delivered = <<>>,
                  !.kind = m, !.by = t,
                  !.open = TRUE,
                  !.produces = IF t = Worker /\ m = "produce" THEN @ + 1 ELSE @,
                  !.poisons = IF t = Worker /\ m = "poison" THEN @ + 1 ELSE @,
                  !.allpoisons = IF m = "poison" THEN @ + 1 ELSE @]
    /\ UNCHANGED <<queues, block, timeout, news_count, stop_request, wpc, arg,
                   qsize, received, ret>>

\* produce(item): the worker passes the item run() generated.
produce(t, it) ==
    /\ t = Worker => it = item[Worker]
    /\ Broadcast(t, "produce", it)

\* poison(): the item is self.get_poison.
poison(t) == Broadcast(t, "poison", get_poison)

InBroadcast(t) == tpc[t] \in {"produce", "poison"}

\* queue.put(item, self.block, self.timeout) on a queue with maxsize QueueCap.
Full(q) == qsize[q] >= QueueCap
\* Variant: a full queue makes put raise whatever block and timeout are.
MayRaiseFull_always(q) == Full(q)

\* put raises queue.Full at once when not blocking, or when the timeout runs
\* out; with block and no timeout it waits (no step) until there is room.
MayRaiseFull(q) == Full(q) /\ (~block \/ timeout)

\* One iteration of the loop: self._put(item, queue) returns.
put(t) ==
    /\ InBroadcast(t)
    /\ idx[t] <= Len(queues)
    /\ LET q == queues[idx[t]] IN
         /\ ~Full(q)
         /\ received' = [received EXCEPT ![q] = Append(@, item[t])]
         /\ qsize' = [qsize EXCEPT ![q] = @ + 1]
         /\ hist' = [hist EXCEPT !.attempts = Append(@, q),
                                 !.delivered = Append(@, q)]
    /\ idx' = [idx EXCEPT ![t] = @ + 1]
    /\ UNCHANGED <<mutex, queues, block, timeout, news_count, stop_request,
                   wpc, tpc, item, arg, err, ret, calls>>

\* One iteration of the loop: self._put raises queue.Full.  Nothing catches
\* it: it leaves the loop, the `with` (releasing the lock) and the method.
put_raises(t) ==
    /\ InBroadcast(t)
    /\ idx[t] <= Len(queues)
    /\ MayRaiseFull(queues[idx[t]])
    /\ err' = [err EXCEPT ![t] = "Full"]
    /\ Release(t)
    /\ tpc' = [tpc EXCEPT ![t] = "idle"]
    /\ idx' = [idx EXCEPT ![t] = 0]
    /\ AfterRaise(t)
    /\ hist' = [hist EXCEPT !.attempts = Append(@, queues[idx[t]]),
                            !.open = FALSE]
    /\ UNCHANGED <<queues, block, timeout, news_count, stop_request, item,
                   arg, qsize, received, ret, calls>>

\* Variant: after its poison call the worker goes back into a tick.
broadcast_return_resumes(t) ==
    /\ InBroadcast(t)
    /\ idx[t] > Len(queues)
    /\ Release(t)
    /\ tpc' = [tpc EXCEPT ![t] = "idle"]
    /\ idx' = [idx EXCEPT ![t] = 0]
    /\ AfterCall(t, IF tpc[t] = "produce" THEN "sleep" ELSE "if")
    /\ hist' = [hist EXCEPT
                  !.open = FALSE,
                  !.produced = IF t = Worker /\ tpc[t] = "produce"
                               THEN @ + 1 ELSE @]
    /\ UNCHANGED <<queues, block, timeout, news_count, stop_request, item,
                   arg, qsize, received, err, ret, calls>>

\* The loop is exhausted: the lock is released and the method returns.
broadcast_return(t) ==
    /\ InBroadcast(t)
    /\ idx[t] > Len(queues)
    /\ Release(t)
    /\ tpc' = [tpc EXCEPT ![t] = "idle"]
    /\ idx' = [idx EXCEPT ![t] = 0]
    /\ AfterCall(t, IF tpc[t] = "produce" THEN "sleep" ELSE "done")
    /\ hist' = [hist EXCEPT
                  !.open = FALSE,
                  !.produced = IF t = Worker /\ tpc[t] = "produce"
                               THEN @ + 1 ELSE @]
    /\ UNCHANGED <<queues, block, timeout, news_count, stop_request, item,
                   arg, qsize, received, err, ret, calls>>

\* The reader of a subscriber queue takes one element off it.
Get(q) ==
    /\ qsize[q] > 0
    /\ qsize' = [qsize EXCEPT ![q] = @ - 1]
    /\ UNCHANGED <<mutex, queues, block, timeout, news_count, stop_request,
                   wpc, tpc, idx, item, arg, received, err, ret, calls, hist>>

\* ---------------------------------------------------- NewsProducer: worker
WorkerOnly ==
    UNCHANGED <<mutex, queues, block, timeout, tpc, idx, arg, qsize, received,
                err, ret, calls, hist>>

\* Thread.start()
start ==
    /\ wpc = "idle"
    /\ wpc' = "while"
    /\ UNCHANGED <<news_count, stop_request, item>>
    /\ WorkerOnly

\* Variant: the loop does not test the stop flag.
run_while_ignores_stop ==
    /\ wpc = "while"
    /\ wpc' = IF news_count < NewsLimit THEN "if" ELSE "poison"
    /\ UNCHANGED <<news_count, stop_request, item>>
    /\ WorkerOnly

\* Variant: the loop bound is off by one (`<=` for `<`).
run_while_off_by_one ==
    /\ wpc = "while"
    /\ wpc' = IF ~stop_request /\ news_count <= NewsLimit THEN "if" ELSE "poison"
    /\ UNCHANGED <<news_count, stop_request, item>>
    /\ WorkerOnly

\* Variant: the loop goes on waiting when its condition is false.
run_while_never_leaves ==
    /\ wpc = "while"
    /\ wpc' = IF ~stop_request /\ news_count < NewsLimit THEN "if" ELSE "sleep"
    /\ UNCHANGED <<news_count, stop_request, item>>
    /\ WorkerOnly

\* while not self.stop_request.isSet() and self.news_count < 10:
run_while ==
    /\ wpc = "while"
    /\ wpc' = IF ~stop_request /\ news_count < NewsLimit THEN "if" ELSE "poison"
    /\ UNCHANGED <<news_count, stop_request, item>>
    /\ WorkerOnly

\* Variant: the item is generated before the count is incremented.
run_news_stale_item ==
    /\ wpc = "news"
    /\ news_count' = news_count + 1
    /\ item' = [item EXCEPT ![Worker] = generate_news(news_count)]
    /\ wpc' = "produce"
    /\ UNCHANGED stop_request
    /\ WorkerOnly

\* Variant: the count goes up by two.
run_news_counts_twice ==
    /\ wpc = "news"
    /\ news_count' = news_count + 2
    /\ item' = [item EXCEPT ![Worker] = generate_news(news_count')]
    /\ wpc' = "produce"
    /\ UNCHANGED stop_request
    /\ WorkerOnly

\* self.news_count += 1; item = self.generate_news(self.news_count)
run_news ==
    /\ wpc = "news"
    /\ news_count' = news_count + 1
    /\ item' = [item EXCEPT ![Worker] = generate_news(news_count')]
    /\ wpc' = "produce"
    /\ UNCHANGED stop_request
    /\ WorkerOnly

\* sleep(2)
run_sleep ==
    /\ wpc = "sleep"
    /\ wpc' = "while"
    /\ UNCHANGED <<news_count, stop_request, item>>
    /\ WorkerOnly

Terminated == wpc \in {"done", "crashed"}

\* Variant: join flips the flag instead of setting it.
join_toggles(c) ==
    /\ Idle(c)
    /\ calls' = calls + 1
    /\ stop_request' = ~stop_request
    /\ hist' = IF hist.stopped THEN hist
               ELSE [hist EXCEPT !.stopped = TRUE, !.stopCount = news_count,
                                 !.stopPc = wpc]
    /\ IF wpc = "idle"
       THEN /\ err' = [err EXCEPT ![c] = "RuntimeError"]
            /\ tpc' = tpc
       ELSE /\ err' = [err EXCEPT ![c] = "none"]
            /\ tpc' = [tpc EXCEPT ![c] = "join"]
    /\ UNCHANGED <<mutex, queues, block, timeout, news_count, wpc, idx, item,
                   arg, qsize, received, ret>>

\* join(): self.stop_request.set(), then Thread.join, which raises
\* RuntimeError for a thread that was never started and otherwise waits.
join(c) ==
    /\ Idle(c)
    /\ calls' = calls + 1
    /\ stop_request' = TRUE
    /\ hist' = IF hist.stopped THEN hist
               ELSE [hist EXCEPT !.stopped = TRUE, !.stopCount = news_count,
                                 !.stopPc = wpc]
    /\ IF wpc = "idle"
       THEN /\ err' = [err EXCEPT ![c] = "RuntimeError"]
            /\ tpc' = tpc
       ELSE /\ err' = [err EXCEPT ![c] = "none"]
            /\ tpc' = [tpc EXCEPT ![c] = "join"]
    /\ UNCHANGED <<mutex, queues, block, timeout, news_count, wpc, idx, item,
                   arg, qsize, received, ret>>

\* Thread.join returns: the thread has ended, or the caller's timeout ran out.
join_return(c) ==
    /\ tpc[c] = "join"
    /\ Terminated
    /\ tpc' = [tpc EXCEPT ![c] = "idle"]
    /\ UNCHANGED <<mutex, queues, block, timeout, news_count, stop_request,
                   wpc, idx, item, arg, qsize, received, err, ret, calls, hist>>

join_timeout(c) ==
    /\ tpc[c] = "join"
    /\ ~Terminated
    /\ tpc' = [tpc EXCEPT ![c] = "idle"]
    /\ UNCHANGED <<mutex, queues, block, timeout, news_count, stop_request,
                   wpc, idx, item, arg, qsize, received, err, ret, calls, hist>>

\* ------------------------------------------------------------ specifications
\* The items a client thread passes to produce.
ClientItems == {generate_news(1), generate_news(2)}

\* What every thread may do once it is inside a method, and the readers.
Inside ==
    \/ \E c \in Clients : add_queue(c)
    \/ \E c \in Clients : remove_queue(c)
    \/ \E t \in Threads : queue_count(t)
    \/ \E t \in Threads : put(t)
    \/ \E t \in Threads : put_raises(t)
    \/ \E t \in Threads : broadcast_return(t)
    \/ \E q \in Queues : Get(q)

\* The worker thread once started, client threads that register, unregister,
\* count and join at most n times, and the readers of the queues.
Running(n) ==
    \/ Inside
    \/ \E c \in Clients, m \in {"add_queue", "remove_queue", "queue_count"},
          q \in Queues \cup {NoQueue} :
          calls < n /\ with_mutex(c, m, q)
    \/ with_mutex(Worker, "queue_count", NoQueue)
    \/ produce(Worker, item[Worker])
    \/ poison(Worker)
    \/ run_while
    \/ run_news
    \/ run_sleep
    \/ \E c \in Clients : calls < n /\ join(c)
    \/ \E c \in Clients : join_return(c)
    \/ \E c \in Clients : join_timeout(c)

\* The whole system from construction on.
Next ==
    \/ Running(MaxCalls)
    \/ start

Spec == Init /\ [][Next]_vars

\* One step of the worker thread: a statement of run() or of a method it is in.
WorkerStep ==
    \/ run_while
    \/ run_news
    \/ run_sleep
    \/ with_mutex(Worker, "queue_count", NoQueue)
    \/ queue_count(Worker)
    \/ produce(Worker, item[Worker])
    \/ poison(Worker)
    \/ put(Worker)
    \/ put_raises(Worker)
    \/ broadcast_return(Worker)

\* One step of a client thread that is inside a method.
ClientStep(c) ==
    \/ add_queue(c)
    \/ remove_queue(c)
    \/ queue_count(c)
    \/ join_return(c)

\* The whole system under a scheduler that lets every thread that can run
\* take its next step, with readers that take what is in their queue.
SpecFair ==
    /\ Init
    /\ [][Next]_vars
    /\ WF_vars(WorkerStep)
    /\ \A c \in Clients : WF_vars(ClientStep(c))
    /\ \A q \in Queues : WF_vars(Get(q))

\* The system from the moment start() returns, with subscribers that were
\* registered before it (a handle registered once, a handle registered
\* twice): lists that add_queue calls build from Init.
InitialLists == {<<"q1">>, <<"q1", "q1">>}

InitRun ==
    /\ mutex = NoThread
    /\ queues \in InitialLists
    /\ block \in BOOLEAN
    /\ timeout \in (IF block THEN BOOLEAN ELSE {FALSE})
    /\ news_count = 0
    /\ stop_request = FALSE
    /\ wpc = "while"
    /\ tpc = [t \in Threads |-> "idle"]
    /\ idx = [t \in Threads |-> 0]
    /\ item = [t \in Threads |-> get_poison]
    /\ arg = [t \in Threads |-> NoQueue]
    /\ qsize = [q \in Queues |-> 0]
    /\ received = [q \in Queues |-> <<>>]
    /\ err = [t \in Threads |-> "none"]
    /\ ret = [t \in Threads |-> 0]
    /\ calls = 0
    /\ hist = [HistInit EXCEPT
                 !.regs = [i \in 1..Len(queues) |->
                             [count |-> 0, done |-> 0, base |-> 0,
                              initial |-> TRUE]],
                 !.dups = {q \in Queues : Count(queues, q) > 1},
                 !.adds = Len(queues)]

NextRun == Running(MaxRunCalls)

SpecRun == InitRun /\ [][NextRun]_vars

\* The registry used on its own: client threads call every public method of
\* ProducerBase; the thread is never started.
NextRegistry ==
    \/ Inside
    \/ \E c \in Clients, m \in {"add_queue", "remove_queue", "queue_count"},
          q \in Queues \cup {NoQueue} :
          calls < MaxOps /\ with_mutex(c, m, q)
    \/ \E c \in Clients, it \in ClientItems : calls < MaxOps /\ produce(c, it)
    \/ \E c \in Clients : calls < MaxOps /\ poison(c)

SpecRegistry == Init /\ [][NextRegistry]_vars

\* ================================================================ claims
\* The news records, in order, among the elements a queue has received.
News(s) == SelectSeq(s, IsNews)
PoisonCount(s) == Cardinality({i \in 1..Len(s) : s[i] = get_poison})

\* C1: a produce call performs one insertion attempt per queue that was
\* registered when it took the lock, in list order, skipping none, and the
\* list does not change while the broadcast runs.
C1_ProduceReachesEveryQueue ==
    hist.kind = "produce" =>
        /\ hist.open => queues = hist.snap
        /\ ~hist.open => hist.attempts = hist.snap

\* C2 (as claimed): in every queue the sequence numbers of the news received
\* are strictly increasing.
C2_StrictlyIncreasing ==
    \A q \in Queues :
        LET s == News(received[q]) IN
          \A i \in 1..(Len(s) - 1) : Seqno(s[i]) < Seqno(s[i + 1])

\* C2 (amended): in every queue the sequence numbers of the news received
\* never decrease, and they are strictly increasing for a queue that was never
\* in the subscriber list more than once at a time.
C2_PerSubscriberFifo ==
    \A q \in Queues :
        LET s == News(received[q]) IN
          \A i \in 1..(Len(s) - 1) :
              /\ Seqno(s[i]) <= Seqno(s[i + 1])
              /\ q \notin hist.dups => Seqno(s[i]) < Seqno(s[i + 1])

C2_Witness ==
    \E q \in Queues :
        /\ q \notin hist.dups
        /\ Len(News(received[q])) >= 3
        /\ hist.adds + hist.removes >= 2

\* C3: a finished poison call has inserted the token into every queue of the
\* list it found, and once the worker has ended every queue that was
\* registered (once) at its last broadcast holds exactly one token.
C3_PoisonOncePerCall ==
    /\ (hist.kind = "poison" /\ ~hist.open) => hist.delivered = hist.snap
    /\ (Terminated /\ hist.by = Worker) =>
          \A i \in 1..Len(hist.snap) :
              Count(hist.snap, hist.snap[i]) = 1 =>
                  PoisonCount(received[hist.snap[i]]) = 1

\* C4: when run() has returned and the stop flag was never set, news_count is
\* 10 and the worker made 10 produce calls and one poison call; from the
\* poison call on the worker is in no produce and in no tick.
C4_NaturalCompletion ==
    /\ (wpc = "done" /\ ~hist.stopped) =>
          /\ news_count = NewsLimit
          /\ hist.produces = NewsLimit
          /\ hist.poisons = 1
    /\ hist.poisons >= 1 =>
          /\ hist.poisons = 1
          /\ wpc \in {"poison", "done", "crashed"}
          /\ tpc[Worker] \in {"idle", "poison"}

C4_Witness ==
    /\ wpc = "done"
    /\ ~hist.stopped
    /\ news_count = NewsLimit
    /\ hist.poisons = 1
    /\ \E q \in Queues : Len(received[q]) = NewsLimit + 1

\* What a queue holds after items 1..n and then the token.
Expected(n) ==
    [i \in 1..(n + 1) |-> IF i <= n THEN generate_news(i) ELSE get_poison]

\* C5 (as claimed): when run() has returned, a queue that was registered
\* before start() and is still registered has received items 1..news_count,
\* each once and in order, followed by exactly one token.
C5_EarlyQueueGetsAll ==
    wpc = "done" =>
        \A i \in 1..Len(queues) :
            hist.regs[i].initial =>
                received[queues[i]] = Expected(news_count)

\* C5 (amended): the same for a queue whose handle was never in the
\* subscriber list more than once at a time.
C5_EarlyQueueRegisteredOnceGetsAll ==
    wpc = "done" =>
        \A i \in 1..Len(queues) :
            (hist.regs[i].initial /\ queues[i] \notin hist.dups) =>
                received[queues[i]] = Expected(news_count)

C5_Witness ==
    /\ wpc = "done"
    /\ news_count = NewsLimit
    /\ \E i \in 1..Len(queues) :
          /\ hist.regs[i].initial
          /\ queues[i] \notin hist.dups
          /\ received[queues[i]] = Expected(NewsLimit)

\* The news a queue received after entry i of the list was appended.
NewsSince(i) ==
    LET s == received[queues[i]] IN
      {Seqno(s[j]) : j \in {k \in (hist.regs[i].base + 1)..Len(s) : IsNews(s[k])}}

C7_RemoveUnregisteredRaises ==
    [][\A c \in Clients :
         (tpc[c] = "remove_queue" /\ tpc'[c] = "idle"
            /\ ~Contains(queues, arg[c])) =>
         (err'[c] = "ValueError" /\ queues' = queues /\ mutex' = NoThread)]_vars

C7_Witness ==
    \E c \in Clients :
        /\ err[c] = "ValueError"
        /\ hist.removes >= 1
        /\ Len(queues) >= 1
        /\ mutex = NoThread

\* C8: the list is as long as the completed adds minus the successful
\* removes, and every queue_count returns that number, which is not negative.
C8_CountIsAddsMinusRemoves ==
    /\ [](Len(queues) = hist.adds - hist.removes)
    /\ [][\A t \in Threads :
            (tpc[t] = "queue_count" /\ tpc'[t] = "idle") =>
            (ret'[t] = hist.adds - hist.removes /\ ret'[t] >= 0)]_vars

C8_Witness ==
    \E c \in Clients :
        /\ tpc[c] = "idle"
        /\ ret[c] = 1
        /\ hist.adds = 2
        /\ hist.removes = 1

C10_FailedInsertionIsDropped ==
    /\ wpc # "crashed"
    /\ \A t \in Threads : err[t] # "Full"

\* C11: a join that finds the flag already set, or the worker ended, leaves
\* the flag set and changes neither news_count, the list, any queue, nor the
\* number of poison calls; an ended worker never moves again; and however
\* often the flag is set the worker makes at most one poison call and
\* produces at most one item after the first setting.
C11_StopIsIdempotent ==
    /\ [](hist.poisons <= 1)
    /\ [](hist.stopped => news_count <= hist.stopCount + 1)
    /\ [][((\E c \in Clients : join(c)) /\ (stop_request \/ Terminated)) =>
            /\ stop_request'
            /\ news_count' = news_count
            /\ queues' = queues
            /\ received' = received
            /\ qsize' = qsize
            /\ wpc' = wpc
            /\ hist'.poisons = hist.poisons]_vars
    /\ [][Terminated =>
            /\ wpc' = wpc
            /\ news_count' = news_count
            /\ received' = received
            /\ hist'.poisons = hist.poisons]_vars

\* A join that found the worker ended after a full run.
C11_Witness ==
    /\ hist.stopped
    /\ hist.stopPc = "done"
    /\ wpc = "done"
    /\ news_count = NewsLimit
    /\ hist.poisons = 1
    /\ \E q \in Queues : received[q] = Expected(NewsLimit)

\* The threads inside a `with self.mutex:` body.
InCriticalSection ==
    {t \in Threads :
        tpc[t] \in {"add_queue", "remove_queue", "queue_count", "produce",
                    "poison"}}

\* C12: at most one thread is inside a `with self.mutex:` body, it is the
\* holder of the lock, and the list a running broadcast iterates over is the
\* list it found when it took the lock.
C12_MutualExclusion ==
    /\ Cardinality(InCriticalSection) <= 1
    /\ \A t \in InCriticalSection : mutex = t
    /\ InCriticalSection = {} => mutex = NoThread
    /\ hist.open => queues = hist.snap

\* A client waits in no method while another thread is in the middle of a
\* broadcast over two entries.
C12_Witness ==
    \E t \in Threads :
        /\ InBroadcast(t)
        /\ idx[t] = 2
        /\ Len(queues) = 2
        /\ mutex = t

\* C13: a produce call of the worker iterates over a non-empty list, the one
\* its queue_count check saw, and when it is over the item has been delivered
\* to at least one queue.
C13_TickDeliversToSomeQueue ==
    (hist.by = Worker /\ hist.kind = "produce") =>
        /\ hist.snap # <<>>
        /\ ~hist.open => hist.delivered # <<>>

\* C14: a tick whose queue_count returned 0 goes straight to the sleep without
\* generating or broadcasting, and leaves news_count and every queue as they
\* were; as long as no add_queue has completed and the flag was never set,
\* news_count is 0, no queue has received anything and run() has not left its
\* loop.
C14_EmptyTickDoesNothing ==
    /\ [](wpc \in {"news", "produce"} => ret[Worker] > 0)
    /\ [][(queue_count(Worker) /\ Len(queues) = 0) =>
            /\ wpc' = "sleep"
            /\ news_count' = news_count
            /\ received' = received
            /\ qsize' = qsize
            /\ hist'.produces = hist.produces]_vars
    /\ [][(wpc = "sleep" /\ ret[Worker] = 0) =>
            /\ wpc' \in {"sleep", "while"}
            /\ news_count' = news_count
            /\ received' = received
            /\ hist'.produces = hist.produces]_vars
    /\ []((hist.adds = 0 /\ ~hist.stopped) =>
            /\ news_count = 0
            /\ hist.produces = 0
            /\ wpc \in {"idle", "while", "if", "sleep"}
            /\ \A q \in Queues : received[q] = <<>>)

\* The worker sleeps after a tick that found no queue, none was ever added
\* and nobody asked it to stop.
C14_Witness ==
    /\ wpc = "sleep"
    /\ ret[Worker] = 0
    /\ hist.adds = 0
    /\ ~hist.stopped
    /\ news_count = 0

\* C15: with blocking insertions without timeout and readers that drain, a
\* started worker whose stop flag is set reaches the end of run() after
\* exactly one poison call and at most one news item beyond the count at the
\* time of the request, and every thread waiting in join returns.
C15_StopTerminates ==
    /\ [](wpc = "done" => hist.poisons = 1)
    /\ [](hist.stopped => hist.produces <= hist.stopCount + 1)
    /\ (stop_request /\ wpc # "idle" /\ block /\ ~timeout) ~> (wpc = "done")
    /\ \A c \in Clients :
          (tpc[c] = "join" /\ block /\ ~timeout) ~> (tpc[c] = "idle")

\* run() has returned after a stop request that arrived in the middle of a
\* tick, with blocking insertions.
C15_Witness ==
    /\ wpc = "done"
    /\ block /\ ~timeout
    /\ hist.stopped
    /\ hist.stopPc \in {"news", "produce"}
    /\ news_count = hist.stopCount + 1
    /\ hist.poisons = 1

\* The broadcast of thread t waits in put: the queue is full, block is True
\* and there is no timeout.
Blocked(t) ==
    /\ InBroadcast(t)
    /\ idx[t] <= Len(queues)
    /\ Full(queues[idx[t]])
    /\ block /\ ~timeout

\* C16: a broadcast that waits in put keeps the lock; while it waits no
\* thread enters or leaves add_queue, remove_queue or queue_count, the list
\* and the results of queue_count stay as they are and no queue receives
\* anything; the wait ends only when the full queue is read, so until then
\* the worker does not move (and does not terminate).
C16_HeadOfLineBlocking ==
    /\ [](\A t \in Threads : Blocked(t) => mutex = t)
    /\ [][(\E t \in Threads : Blocked(t)) =>
            /\ mutex' = mutex
            /\ queues' = queues
            /\ received' = received
            /\ ret' = ret
            /\ hist'.adds = hist.adds
            /\ hist'.removes = hist.removes
            /\ \A t \in Threads :
                  (tpc[t] = "join" \/ tpc'[t] = "join") \/ tpc'[t] = tpc[t]]_vars
    /\ [][Blocked(Worker) =>
            \/ qsize'[queues[idx[Worker]]] < qsize[queues[idx[Worker]]]
            \/ (Blocked(Worker)' /\ wpc' = wpc /\ idx' = idx)]_vars

\* The worker waits at the first of two entries: the second subscriber is
\* kept waiting for the item.
C16_Witness ==
    /\ Blocked(Worker)
    /\ idx[Worker] = 1
    /\ Len(queues) = 2
    /\ queues[2] # queues[1]
    /\ \A i \in 1..Len(received[queues[2]]) :
          received[queues[2]][i] # item[Worker]

\* C17: a handle that is in the list more than once when a produce or poison
\* call takes the lock has received the item once per occurrence when the
\* call is over.
C17_OncePerOccurrence ==
    (~hist.open /\ hist.kind \in {"produce", "poison"}) =>
        \A q \in Queues :
            Count(hist.snap, q) > 1 =>
                Count(hist.delivered, q) = Count(hist.snap, q)

C19_LockReleasedOnExit ==
    /\ \A t \in Threads :
          (tpc[t] \in {"idle", "join"}) => mutex # t
    /\ (\A t \in Threads : tpc[t] \in {"idle", "join"}) => mutex = NoThread

\* One client's remove_queue has raised ValueError, the other's broadcast
\* has raised queue.Full, and the lock is free.
C19_Witness ==
    /\ \E c \in Clients : err[c] = "ValueError" /\ tpc[c] = "idle"
    /\ \E c \in Clients : err[c] = "Full" /\ tpc[c] = "idle"
    /\ mutex = NoThread

\* C20: in every queue nothing but poison tokens follows a poison token (a
\* handle that is in the list n times gets n tokens in a row), and once the
\* worker's poison call has returned, an entry whose queue was not in the
\* list that call found has received nothing since it was appended.
C20_PoisonIsLast ==
    /\ \A q \in Queues :
          \A i \in 1..(Len(received[q]) - 1) :
              received[q][i] = get_poison => received[q][i + 1] = get_poison
    /\ wpc = "done" =>
          /\ hist.kind = "poison" /\ hist.by = Worker
          /\ \A i \in 1..Len(queues) :
                ~Contains(hist.snap, queues[i]) =>
                    Len(received[queues[i]]) = hist.regs[i].base

\* After the end of run() one queue ends with the token and another, added
\* once the poison call was over, is in the list and empty.
C20_Witness ==
    /\ wpc = "done"
    /\ \E q \in Queues :
          /\ Len(received[q]) > 1
          /\ received[q][Len(received[q])] = get_poison
    /\ \E i \in 1..Len(queues) :
          /\ ~Contains(hist.snap, queues[i])
          /\ received[queues[i]] = <<>>

====
